---- MODULE Spec2Model ----
(***************************************************************************)
(* The session-multiplexed protocol server of the FDTD backend:            *)
(*   - ProtocolDecoder (protocol/Protocol.cpp) on byte sequences,          *)
(*   - Session (session/Session.cpp): flags, activity timestamp, solver,   *)
(*   - SessionManager (session/SessionManager.cpp): three maps + mutex_,   *)
(*   - Server (server/Server.cpp): the event-loop thread that runs the     *)
(*     open/message/close handlers and the simulation worker threads that  *)
(*     loop over updateAll(); broadcastFrames().                           *)
(* Every SessionManager operation is two or more steps: taking mutex_      *)
(* (the lock_guard) and the body, which ends by releasing it.              *)
(***************************************************************************)
EXTENDS Integers, Sequences, FiniteSets, TLC

VARIABLES
  connectionToSession_,  \* WebSocketType* -> session id   (partial map)
  sessions_,             \* session id -> Session          (partial map)
  sessionToConnection_,  \* session id -> WebSocketType*   (partial map)
  mutex_,                \* "free" or the thread that holds the lock
  pc,                    \* position of every thread
  evConn,                \* event-loop thread: the ws of the current handler
  evMsg,                 \* event-loop thread: the decoded message
  ret,                   \* event-loop thread: the optional session id in hand
  iter,                  \* worker: sessions the range-for has still to visit
  open,                  \* connections the transport holds open
  now,                   \* steady_clock, in minutes
  process,               \* "running", "terminated" or "exited" (exit(0))
  cerr,                  \* last line handleWebSocket wrote to std::cerr
  sending,               \* worker: the ws->send() it made and its status
  tickStart,             \* history: sessions_ and now when updateAll was entered
  running_,              \* Server::running_, the flag of the workers' loops
  joined,                \* the threads of simulationThreads_ stop() has joined
  data_,                 \* a ProtocolDecoder: the bytes it was constructed on
  offset_,               \* a ProtocolDecoder: its cursor
  last,                  \* a ProtocolDecoder: the last call and what it returned
  written                \* history: what the encoder wrote into data_

registry == <<connectionToSession_, sessions_, sessionToConnection_>>
stopVars == <<running_, joined>>
serverVars == <<connectionToSession_, sessions_, sessionToConnection_, mutex_,
                pc, evConn, evMsg, ret, iter, open, now, process, cerr,
                sending, tickStart, stopVars>>
codecVars == <<data_, offset_, last, written>>
vars == <<serverVars, codecVars>>

----------------------------------------------------------------------------
(* Bounds of the model *)

NumWorkers == 2
MaxTime == 60
ClockStep == 30
MaxPayload == 20
MaxRawLen == 5
MaxStrLen == 2

(* Program constants *)

SESSION_TIMEOUT == 30
DefaultGrid == 128
CLIENT_INPUT == 1
CLIENT_CONTROL == 2
SERVER_FRAME == 16
SERVER_STATE == 17
SERVER_ERROR == 18

(* Two connection handles and two values generateSessionId() can return:   *)
(* the smallest sets in which two live sessions can have different ids or  *)
(* the same id.                                                            *)
Conns == {"ws1", "ws2"}
Ids == {"id_a", "id_b"}

WorkerNames == <<"w1", "w2", "w3", "w4">>
Workers == {WorkerNames[i] : i \in 1..NumWorkers}
Threads == {"net"} \cup Workers

----------------------------------------------------------------------------
(* std::unordered_map *)

Put(f, k, v) == [x \in DOMAIN f \cup {k} |-> IF x = k THEN v ELSE f[x]]
Erase(f, k) == [x \in DOMAIN f \ {k} |-> f[x]]
EmptyMap == [x \in {} |-> "none"]

----------------------------------------------------------------------------
(* ProtocolEncoder: buf is buffer_, a sequence of bytes.  A float is its    *)
(* 32 bits (the memcpy into uint32_t bits), a double its 64 bits as the    *)
(* two 32-bit halves [lo, hi]; a string is a sequence of bytes.            *)

(* static_cast<uint8_t>(value >> (8 * i)) *)
ByteOf(value, i) ==
  (value \div (IF i = 0 THEN 1 ELSE IF i = 1 THEN 256
               ELSE IF i = 2 THEN 65536 ELSE 16777216)) % 256

writeHeader(buf, type) == Append(buf, type)

(* faulty variant: the four bytes are written most significant first *)
writeUInt32_BigEndian(buf, value) ==
  buf \o <<ByteOf(value, 3), ByteOf(value, 2), ByteOf(value, 1),
           ByteOf(value, 0)>>

writeUInt32(buf, value) ==
  buf \o <<ByteOf(value, 0), ByteOf(value, 1), ByteOf(value, 2),
           ByteOf(value, 3)>>

writeInt32(buf, value) ==
  buf \o <<ByteOf(value, 0), ByteOf(value, 1), ByteOf(value, 2),
           ByteOf(value, 3)>>

writeFloat(buf, bits) ==
  buf \o <<ByteOf(bits, 0), ByteOf(bits, 1), ByteOf(bits, 2),
           ByteOf(bits, 3)>>

writeDouble(buf, bits) ==
  buf \o [i \in 1..8 |-> IF i <= 4 THEN ByteOf(bits.lo, i - 1)
                          ELSE ByteOf(bits.hi, i - 5)]

writeString(buf, str) == writeUInt32(buf, Len(str)) \o str

encodeFrame(sessionId, textureData, simulationTime) ==
  writeUInt32(writeDouble(writeString(writeHeader(<< >>, SERVER_FRAME),
                                      sessionId),
                          simulationTime),
              Len(textureData)) \o textureData

encodeState(sessionId, time, width, height, depth) ==
  writeInt32(writeInt32(writeInt32(
    writeFloat(writeString(writeHeader(<< >>, SERVER_STATE), sessionId),
               time),
    width), height), depth)

encodeError(sessionId, error) ==
  writeString(writeString(writeHeader(<< >>, SERVER_ERROR), sessionId),
              error)

----------------------------------------------------------------------------
(* ProtocolDecoder: data is the byte sequence data_[0 .. size_ - 1], off   *)
(* the cursor offset_.  A call returns [ok, value, offset, what, read]:    *)
(* ok = FALSE is the thrown std::runtime_error with message what, offset   *)
(* is offset_ after the call, read the indices of data_ the call read.     *)

Throw(what, off, read) ==
  [ok |-> FALSE, value |-> 0, offset |-> off, what |-> what, read |-> read]
Value(v, off, read) ==
  [ok |-> TRUE, value |-> v, offset |-> off, what |-> "", read |-> read]

(* data_[i]; an index outside the buffer has no defined value, 0 stands    *)
(* for it                                                                  *)
ByteAt(data, i) == IF i >= 0 /\ i < Len(data) THEN data[i + 1] ELSE 0

LittleEndian32(data, off) ==
  ByteAt(data, off) + ByteAt(data, off + 1) * 256
    + ByteAt(data, off + 2) * 65536 + ByteAt(data, off + 3) * 16777216

decodeHeader(data, off) ==
  IF off >= Len(data)
  THEN Throw("Invalid message: not enough data", off, {})
  ELSE Value(ByteAt(data, off), off + 1, {off})

(* faulty variant: the length test of readFloat is off by one *)
readFloat_OffByOne(data, off) ==
  IF off + 3 > Len(data)
  THEN Throw("Invalid message: not enough data for float", off, {})
  ELSE Value(LittleEndian32(data, off), off + 4, off..(off + 3))

readFloat(data, off) ==
  IF off + 4 > Len(data)
  THEN Throw("Invalid message: not enough data for float", off, {})
  ELSE Value(LittleEndian32(data, off), off + 4, off..(off + 3))

readDouble(data, off) ==
  IF off + 8 > Len(data)
  THEN Throw("Invalid message: not enough data for double", off, {})
  ELSE Value([lo |-> LittleEndian32(data, off),
              hi |-> LittleEndian32(data, off + 4)],
             off + 8, off..(off + 7))

(* the four bytes or-ed into an int32_t: a top byte above 127 sets the sign *)
readInt32(data, off) ==
  IF off + 4 > Len(data)
  THEN Throw("Invalid message: not enough data for int32", off, {})
  ELSE Value(ByteAt(data, off) + ByteAt(data, off + 1) * 256
               + ByteAt(data, off + 2) * 65536
               + (IF ByteAt(data, off + 3) >= 128
                  THEN ByteAt(data, off + 3) - 256
                  ELSE ByteAt(data, off + 3)) * 16777216,
             off + 4, off..(off + 3))

readUInt32(data, off) ==
  IF off + 4 > Len(data)
  THEN Throw("Invalid message: not enough data for uint32", off, {})
  ELSE Value(LittleEndian32(data, off), off + 4, off..(off + 3))

readString(data, off) ==
  LET len == readUInt32(data, off) IN
  IF ~len.ok THEN len
  ELSE IF len.offset + len.value > Len(data)
  THEN Throw("Invalid message: string length exceeds buffer", len.offset,
             len.read)
  ELSE Value([i \in 1..len.value |-> ByteAt(data, len.offset + i - 1)],
             len.offset + len.value,
             len.read \cup (len.offset..(len.offset + len.value - 1)))

NoMsg == [kind |-> "none", x |-> 0, y |-> 0, z |-> 0, value |-> 0,
          timestamp |-> 0, type |-> 0, parameter |-> 0]

(* a failed read leaves the reads and the cursor of the reads before it *)
After(r, read) == [r EXCEPT !.read = @ \cup read]

decodeClientInput(data, off) ==
  LET x == readFloat(data, off) IN
  IF ~x.ok THEN x ELSE
  LET y == After(readFloat(data, x.offset), x.read) IN
  IF ~y.ok THEN y ELSE
  LET z == After(readFloat(data, y.offset), y.read) IN
  IF ~z.ok THEN z ELSE
  LET v == After(readFloat(data, z.offset), z.read) IN
  IF ~v.ok THEN v ELSE
  LET t == After(readUInt32(data, v.offset), v.read) IN
  IF ~t.ok THEN t ELSE
  Value([NoMsg EXCEPT !.kind = "input", !.x = x.value, !.y = y.value,
                      !.z = z.value, !.value = v.value,
                      !.timestamp = t.value], t.offset, t.read)

decodeClientControl(data, off) ==
  IF off >= Len(data)
  THEN Throw("Invalid message: not enough data for control", off, {})
  ELSE LET p == After(readFloat(data, off + 1), {off}) IN
       IF ~p.ok THEN p ELSE
       Value([NoMsg EXCEPT !.kind = "control", !.type = ByteAt(data, off),
                           !.parameter = p.value], p.offset, p.read)

(* The try block of Server::handleWebSocket up to the registry calls:      *)
(* [route, msg, line]: route is "input" or "control" when a message was    *)
(* decoded, "drop" when the default branch or the catch handler ran; line  *)
(* is what was written to std::cerr.                                       *)
Caught(what) ==
  [route |-> "drop", msg |-> NoMsg,
   line |-> "Error handling WebSocket message: " \o what]

handleWebSocketDecode(data) ==
  LET h == decodeHeader(data, 0) IN
  IF ~h.ok THEN Caught(h.what)
  ELSE IF h.value = CLIENT_INPUT
  THEN LET m == decodeClientInput(data, h.offset) IN
       IF ~m.ok THEN Caught(m.what)
       ELSE [route |-> "input", msg |-> m.value, line |-> ""]
  ELSE IF h.value = CLIENT_CONTROL
  THEN LET m == decodeClientControl(data, h.offset) IN
       IF ~m.ok THEN Caught(m.what)
       ELSE [route |-> "control", msg |-> m.value, line |-> ""]
  ELSE [route |-> "drop", msg |-> NoMsg, line |-> "Unknown message type"]

(* Inbound binary messages: a tag byte followed by n equal bytes.          *)
TagBytes == {CLIENT_INPUT, CLIENT_CONTROL, SERVER_FRAME}
FillBytes == {4}
MkMsg(tag, n, b) == <<tag>> \o [i \in 1..n |-> b]
Messages ==
  {<< >>} \cup {MkMsg(tag, n, b) : tag \in TagBytes, n \in 0..MaxPayload,
                                  b \in FillBytes}

----------------------------------------------------------------------------
(* Session *)

(* steps counts the solver steps made; sends is history: the ws->send()    *)
(* calls made with the frame of the last step.                             *)
NewSession(id, t) ==
  [id |-> id, hasNewFrame |-> FALSE, needsUpdate |-> TRUE,
   lastActivity |-> t, simulation |-> FALSE,
   width |-> 0, height |-> 0, depth |-> 0, steps |-> 0, sends |-> 0]

initialize(s, w, h, d) ==
  [s EXCEPT !.simulation = TRUE, !.width = w, !.height = h, !.depth = d]

step(s, t) ==
  IF ~s.simulation THEN s
  ELSE [s EXCEPT !.steps = @ + 1, !.hasNewFrame = TRUE, !.lastActivity = t,
                 !.sends = 0]

(* faulty variant: update() forgets needsUpdate_ = false *)
update_KeepsNeedsUpdate(s, t) ==
  IF s.needsUpdate THEN step(s, t) ELSE s

update(s, t) ==
  IF s.needsUpdate THEN [step(s, t) EXCEPT !.needsUpdate = FALSE] ELSE s

(* faulty variant: an input asks for another step *)
sessionHandleInput_NeedsUpdate(s, t) ==
  IF ~s.simulation THEN s
  ELSE [s EXCEPT !.lastActivity = t, !.needsUpdate = TRUE]

(* simulation_->addSource(x, y, z, value) acts inside the solver only *)
sessionHandleInput(s, t) ==
  IF ~s.simulation THEN s
  ELSE [s EXCEPT !.lastActivity = t]

(* faulty variant: only the electric field is copied into the buffer *)
getFrameData_ElectricOnly(s) ==
  IF ~s.simulation \/ ~s.hasNewFrame THEN 0
  ELSE (s.width * s.height * s.depth * 3) * 4

(* faulty variant: getFrameData forgets the !hasNewFrame_ test *)
getFrameData_IgnoresFlag(s) ==
  IF ~s.simulation THEN 0
  ELSE (s.width * s.height * s.depth * 3) * 4 * 2

(* size of the buffer getFrameData fills; 0 is buffer.clear() *)
getFrameData(s) ==
  IF ~s.simulation \/ ~s.hasNewFrame THEN 0
  ELSE (s.width * s.height * s.depth * 3) * 4 * 2

(* faulty variant: markFrameSent leaves hasNewFrame_ set *)
markFrameSent_KeepsFlag(s) == s

markFrameSent(s) == [s EXCEPT !.hasNewFrame = FALSE]

isExpired(s, t) == (t - s.lastActivity) > SESSION_TIMEOUT

----------------------------------------------------------------------------
(* SessionManager *)

(* faulty variant: the lock is taken without waiting for its holder *)
Lock_NoWait(t) == mutex_' = t

Lock(t) == mutex_ = "free" /\ mutex_' = t
Unlock == mutex_' = "free"

getSessionId(ws) ==
  IF ws \in DOMAIN connectionToSession_
  THEN <<connectionToSession_[ws]>> ELSE << >>

Expired(t) == {id \in DOMAIN sessions_ : isExpired(sessions_[id], t)}

(* faulty variant: the sweep forgets the loop over connectionToSession_ *)
cleanupExpiredSessions_KeepsConnections ==
  LET gone == Expired(now) IN
  /\ sessions_' = [id \in DOMAIN sessions_ \ gone |-> sessions_[id]]
  /\ sessionToConnection_' =
       [id \in DOMAIN sessionToConnection_ \ gone |-> sessionToConnection_[id]]
  /\ UNCHANGED connectionToSession_

cleanupExpiredSessions ==
  LET gone == Expired(now) IN
  /\ sessions_' = [id \in DOMAIN sessions_ \ gone |-> sessions_[id]]
  /\ sessionToConnection_' =
       [id \in DOMAIN sessionToConnection_ \ gone |-> sessionToConnection_[id]]
  /\ connectionToSession_' =
       [c \in {x \in DOMAIN connectionToSession_ :
                 connectionToSession_[x] \notin gone}
          |-> connectionToSession_[c]]

NoSend == [sid |-> "none", ws |-> "none", status |-> "none", len |-> 0]
SendStatus == {"SUCCESS", "BACKPRESSURE", "DROPPED"}

----------------------------------------------------------------------------
NoCall == [op |-> "none", ok |-> TRUE, value |-> 0, what |-> "", read |-> {}]
NoWrite == [kind |-> "none", value |-> 0]

ServerInit ==
  /\ connectionToSession_ = EmptyMap
  /\ sessions_ = EmptyMap
  /\ sessionToConnection_ = EmptyMap
  /\ mutex_ = "free"
  /\ pc = [t \in Threads |-> IF t = "net" THEN "idle" ELSE "call_updateAll"]
  /\ evConn = "none"
  /\ evMsg = NoMsg
  /\ ret = << >>
  /\ iter = [w \in Workers |-> {}]
  /\ open = {}
  /\ now = 0
  /\ process = "running"
  /\ cerr = ""
  /\ sending = [w \in Workers |-> NoSend]
  /\ tickStart = [w \in Workers |-> << >>]
  /\ running_ = TRUE
  /\ joined = {}

(* the server with no decoder under observation *)
Init ==
  /\ ServerInit
  /\ data_ = << >> /\ offset_ = 0 /\ last = NoCall /\ written = NoWrite

Goto(t, l) == pc' = [pc EXCEPT ![t] = l]

----------------------------------------------------------------------------
(* Event-loop thread: .open handler *)

Open(ws) ==
  /\ process = "running" /\ pc["net"] = "idle" /\ ws \notin open
  /\ Lock("net")
  /\ Goto("net", "createSession")
  /\ evConn' = ws /\ open' = open \cup {ws}
  /\ ret' = << >> /\ evMsg' = NoMsg
  /\ UNCHANGED <<registry, iter, now, process, cerr, sending, tickStart>>
  /\ UNCHANGED <<stopVars, codecVars>>

(* createSession body: generateSessionId() may return any id; the solver's *)
(* initialize() may throw, and nothing on the way up catches it.           *)
(* faulty variant: createSession forgets sessionToConnection_[sessionId] = ws *)
createSession_NoReverseIndex ==
  /\ process = "running" /\ pc["net"] = "createSession"
  /\ \E sessionId \in Ids :
       /\ sessions_' =
            Put(sessions_, sessionId,
                initialize(NewSession(sessionId, now),
                           DefaultGrid, DefaultGrid, DefaultGrid))
       /\ connectionToSession_' = Put(connectionToSession_, evConn, sessionId)
       /\ ret' = <<sessionId>>
  /\ Unlock
  /\ Goto("net", "opened")
  /\ UNCHANGED <<sessionToConnection_, process, evConn, evMsg, iter, open,
                 now, cerr, sending, tickStart>>
  /\ UNCHANGED <<stopVars, codecVars>>

createSession ==
  /\ process = "running" /\ pc["net"] = "createSession"
  /\ \E sessionId \in Ids, initOk \in BOOLEAN :
       \/ /\ initOk
          /\ sessions_' =
               Put(sessions_, sessionId,
                   initialize(NewSession(sessionId, now),
                              DefaultGrid, DefaultGrid, DefaultGrid))
          /\ connectionToSession_' =
               Put(connectionToSession_, evConn, sessionId)
          /\ sessionToConnection_' =
               Put(sessionToConnection_, sessionId, evConn)
          /\ ret' = <<sessionId>>
          /\ Unlock
          /\ Goto("net", "opened")
          /\ UNCHANGED process
       \/ /\ ~initOk
          /\ process' = "terminated"
          /\ UNCHANGED <<registry, ret, pc, mutex_>>
  /\ UNCHANGED <<evConn, evMsg, iter, open, now, cerr, sending, tickStart>>
  /\ UNCHANGED <<stopVars, codecVars>>

(* the handler prints the id and returns *)
Opened ==
  /\ process = "running" /\ pc["net"] = "opened"
  /\ Goto("net", "idle")
  /\ ret' = << >> /\ evConn' = "none"
  /\ UNCHANGED <<registry, mutex_, evMsg, iter, open, now, process, cerr,
                 sending, tickStart>>
  /\ UNCHANGED <<stopVars, codecVars>>

----------------------------------------------------------------------------
(* Event-loop thread: .close handler -> handleDisconnect -> removeSession *)

Close(ws) ==
  /\ process = "running" /\ pc["net"] = "idle" /\ ws \in open
  /\ Lock("net")
  /\ Goto("net", "removeSession")
  /\ evConn' = ws /\ open' = open \ {ws}
  /\ UNCHANGED <<registry, evMsg, ret, iter, now, process, cerr, sending, tickStart>>
  /\ UNCHANGED <<stopVars, codecVars>>

(* faulty variant: removeSession erases the entry of the connection only *)
removeSession_OnlyConnection ==
  /\ process = "running" /\ pc["net"] = "removeSession"
  /\ IF evConn \in DOMAIN connectionToSession_
     THEN /\ connectionToSession_' = Erase(connectionToSession_, evConn)
          /\ UNCHANGED <<sessions_, sessionToConnection_>>
     ELSE UNCHANGED registry
  /\ Unlock
  /\ Goto("net", "idle")
  /\ evConn' = "none"
  /\ UNCHANGED <<evMsg, ret, iter, open, now, process, cerr, sending,
                 tickStart>>
  /\ UNCHANGED <<stopVars, codecVars>>

(* faulty variant: removeSession forgets sessionToConnection_.erase(sessionId) *)
removeSession_KeepsReverseIndex ==
  /\ process = "running" /\ pc["net"] = "removeSession"
  /\ IF evConn \in DOMAIN connectionToSession_
     THEN /\ sessions_' = Erase(sessions_, connectionToSession_[evConn])
          /\ connectionToSession_' = Erase(connectionToSession_, evConn)
          /\ UNCHANGED sessionToConnection_
     ELSE UNCHANGED registry
  /\ Unlock
  /\ Goto("net", "idle")
  /\ evConn' = "none"
  /\ UNCHANGED <<evMsg, ret, iter, open, now, process, cerr, sending,
                 tickStart>>
  /\ UNCHANGED <<stopVars, codecVars>>

removeSession ==
  /\ process = "running" /\ pc["net"] = "removeSession"
  /\ IF evConn \in DOMAIN connectionToSession_
     THEN LET sessionId == connectionToSession_[evConn] IN
          /\ sessions_' = Erase(sessions_, sessionId)
          /\ sessionToConnection_' = Erase(sessionToConnection_, sessionId)
          /\ connectionToSession_' = Erase(connectionToSession_, evConn)
     ELSE UNCHANGED registry
  /\ Unlock
  /\ Goto("net", "idle")
  /\ evConn' = "none"
  /\ UNCHANGED <<evMsg, ret, iter, open, now, process, cerr, sending, tickStart>>
  /\ UNCHANGED <<stopVars, codecVars>>

----------------------------------------------------------------------------
(* Event-loop thread: .message handler (opCode BINARY) -> handleWebSocket  *)

(* faulty variant: handleWebSocket without its try/catch: a decode error escapes  *)
(* the handler and ends the process                                       *)
Message_NoCatch(ws, data) ==
  /\ process = "running" /\ pc["net"] = "idle" /\ ws \in open
  /\ LET d == handleWebSocketDecode(data) IN
       IF d.route = "drop"
       THEN /\ cerr' = d.line
            /\ IF d.line = "Unknown message type"
               THEN Goto("net", "dropped") /\ UNCHANGED process
               ELSE process' = "terminated" /\ UNCHANGED pc
            /\ UNCHANGED <<mutex_, evConn, evMsg>>
       ELSE /\ Lock("net")
            /\ Goto("net", "getSessionId")
            /\ evConn' = ws /\ evMsg' = d.msg
            /\ UNCHANGED <<cerr, process>>
  /\ UNCHANGED <<registry, ret, iter, open, now, sending, tickStart>>
  /\ UNCHANGED <<stopVars, codecVars>>

Message(ws, data) ==
  /\ process = "running" /\ pc["net"] = "idle" /\ ws \in open
  /\ LET d == handleWebSocketDecode(data) IN
       IF d.route = "drop"
       THEN /\ cerr' = d.line
            /\ Goto("net", "dropped")
            /\ UNCHANGED <<mutex_, evConn, evMsg>>
       ELSE /\ Lock("net")
            /\ Goto("net", "getSessionId")
            /\ evConn' = ws /\ evMsg' = d.msg
            /\ UNCHANGED cerr
  /\ UNCHANGED <<registry, ret, iter, open, now, process, sending, tickStart>>
  /\ UNCHANGED <<stopVars, codecVars>>

(* the default branch or the catch handler has logged: the handler returns *)
Dropped ==
  /\ process = "running" /\ pc["net"] = "dropped"
  /\ Goto("net", "idle")
  /\ cerr' = ""
  /\ UNCHANGED <<registry, mutex_, evConn, evMsg, ret, iter, open, now,
                 process, sending, tickStart>>
  /\ UNCHANGED <<stopVars, codecVars>>

(* faulty variant: a connection without a session is given a new one *)
getSessionIdBody_Recreates ==
  /\ process = "running" /\ pc["net"] = "getSessionId"
  /\ IF evConn \in DOMAIN connectionToSession_
     THEN ret' = getSessionId(evConn) /\ UNCHANGED registry
     ELSE \E sessionId \in Ids :
            /\ sessions_' =
                 Put(sessions_, sessionId,
                     initialize(NewSession(sessionId, now),
                                DefaultGrid, DefaultGrid, DefaultGrid))
            /\ connectionToSession_' =
                 Put(connectionToSession_, evConn, sessionId)
            /\ sessionToConnection_' =
                 Put(sessionToConnection_, sessionId, evConn)
            /\ ret' = <<sessionId>>
  /\ Unlock
  /\ Goto("net", "call_dispatch")
  /\ UNCHANGED <<evConn, evMsg, iter, open, now, process, cerr, sending,
                 tickStart>>
  /\ UNCHANGED <<stopVars, codecVars>>

getSessionIdBody ==
  /\ process = "running" /\ pc["net"] = "getSessionId"
  /\ ret' = getSessionId(evConn)
  /\ Unlock
  /\ IF ret' # << >>
     THEN Goto("net", "call_dispatch") /\ UNCHANGED <<evConn, evMsg>>
     ELSE Goto("net", "idle") /\ evConn' = "none" /\ evMsg' = NoMsg
  /\ UNCHANGED <<registry, iter, open, now, process, cerr, sending, tickStart>>
  /\ UNCHANGED <<stopVars, codecVars>>

dispatchLock ==
  /\ process = "running" /\ pc["net"] = "call_dispatch"
  /\ Lock("net")
  /\ Goto("net", IF evMsg.kind = "input" THEN "handleInput"
                 ELSE "handleControl")
  /\ UNCHANGED <<registry, evConn, evMsg, ret, iter, open, now, process,
                 cerr, sending, tickStart>>
  /\ UNCHANGED <<stopVars, codecVars>>

Return ==
  /\ Unlock
  /\ Goto("net", "idle")
  /\ evConn' = "none" /\ evMsg' = NoMsg /\ ret' = << >>

(* faulty variant: sessions_[sessionId]->handleInput(...) instead of find(): an     *)
(* unknown id inserts a null Session and dereferences it                   *)
handleInput_Subscript ==
  /\ process = "running" /\ pc["net"] = "handleInput"
  /\ LET sessionId == ret[1] IN
       IF sessionId \in DOMAIN sessions_
       THEN /\ sessions_' = [sessions_ EXCEPT
                               ![sessionId] = sessionHandleInput(@, now)]
            /\ Return
            /\ UNCHANGED process
       ELSE /\ sessions_' = Put(sessions_, sessionId,
                                NewSession(sessionId, now))
            /\ process' = "terminated"
            /\ UNCHANGED <<mutex_, pc, evConn, evMsg, ret>>
  /\ UNCHANGED <<connectionToSession_, sessionToConnection_, iter, open, now,
                 cerr, sending, tickStart>>
  /\ UNCHANGED <<stopVars, codecVars>>

handleInput ==
  /\ process = "running" /\ pc["net"] = "handleInput"
  /\ LET sessionId == ret[1] IN
       IF sessionId \in DOMAIN sessions_
       THEN sessions_' = [sessions_ EXCEPT
                            ![sessionId] = sessionHandleInput(@, now)]
       ELSE UNCHANGED sessions_
  /\ Return
  /\ UNCHANGED <<connectionToSession_, sessionToConnection_, iter, open, now,
                 process, cerr, sending, tickStart>>
  /\ UNCHANGED <<stopVars, codecVars>>

(* faulty variant: a control message counts as activity of the session *)
handleControl_RefreshesActivity ==
  /\ process = "running" /\ pc["net"] = "handleControl"
  /\ LET sessionId == ret[1] IN
       IF sessionId \in DOMAIN sessions_
       THEN sessions_' = [sessions_ EXCEPT ![sessionId].lastActivity = now]
       ELSE UNCHANGED sessions_
  /\ Return
  /\ UNCHANGED <<connectionToSession_, sessionToConnection_, iter, open, now,
                 process, cerr, sending, tickStart>>
  /\ UNCHANGED <<stopVars, codecVars>>

handleControl ==
  /\ process = "running" /\ pc["net"] = "handleControl"
  /\ LET sessionId == ret[1] IN
       IF sessionId \in DOMAIN sessions_
       THEN UNCHANGED sessions_
       ELSE UNCHANGED sessions_
  /\ Return
  /\ UNCHANGED <<connectionToSession_, sessionToConnection_, iter, open, now,
                 process, cerr, sending, tickStart>>
  /\ UNCHANGED <<stopVars, codecVars>>

----------------------------------------------------------------------------
(* Simulation worker threads: while (running_) { updateAll();              *)
(* broadcastFrames(); sleep_for(16ms); }                                   *)

updateAllLock(w) ==
  /\ process = "running" /\ pc[w] = "call_updateAll"
  /\ running_
  /\ Lock(w)
  /\ Goto(w, "updateAll")
  /\ iter' = [iter EXCEPT ![w] = DOMAIN sessions_]
  /\ tickStart' = [tickStart EXCEPT
                     ![w] = <<[sessions |-> sessions_, now |-> now]>>]
  /\ UNCHANGED <<registry, evConn, evMsg, ret, open, now, process, cerr,
                 sending>>
  /\ UNCHANGED <<stopVars, codecVars>>

(* one iteration of the range-for: session->update() *)
updateAllStep(w) ==
  /\ process = "running" /\ pc[w] = "updateAll"
  /\ \E sessionId \in iter[w] :
       /\ sessions_' = [sessions_ EXCEPT ![sessionId] = update(@, now)]
       /\ iter' = [iter EXCEPT ![w] = @ \ {sessionId}]
  /\ UNCHANGED <<connectionToSession_, sessionToConnection_, mutex_, pc,
                 evConn, evMsg, ret, open, now, process, cerr, sending, tickStart>>
  /\ UNCHANGED <<stopVars, codecVars>>

(* the loop is over: cleanupExpiredSessions(), then the lock is released *)
updateAllEnd(w) ==
  /\ process = "running" /\ pc[w] = "updateAll" /\ iter[w] = {}
  /\ cleanupExpiredSessions
  /\ Unlock
  /\ Goto(w, "call_broadcastFrames")
  /\ tickStart' = [tickStart EXCEPT ![w] = << >>]
  /\ UNCHANGED <<evConn, evMsg, ret, iter, open, now, process, cerr,
                 sending>>
  /\ UNCHANGED <<stopVars, codecVars>>

broadcastFramesLock(w) ==
  /\ process = "running" /\ pc[w] = "call_broadcastFrames"
  /\ Lock(w)
  /\ Goto(w, "broadcastFrames")
  /\ iter' = [iter EXCEPT ![w] = DOMAIN sessions_]
  /\ UNCHANGED <<registry, evConn, evMsg, ret, open, now, process, cerr,
                 sending, tickStart>>
  /\ UNCHANGED <<stopVars, codecVars>>

(* faulty variant: the frame is handed to any connection of the registry     *)
(* instead of the one sessionToConnection_ binds to the session            *)
broadcastFramesStep_AnyConnection(w) ==
  /\ process = "running" /\ pc[w] = "broadcastFrames"
  /\ \E sessionId \in iter[w] :
       /\ iter' = [iter EXCEPT ![w] = @ \ {sessionId}]
       /\ LET session == sessions_[sessionId] IN
            IF ~session.hasNewFrame
            THEN UNCHANGED <<sending, pc, sessions_>>
            ELSE IF sessionId \notin DOMAIN sessionToConnection_
            THEN UNCHANGED <<sending, pc, sessions_>>
            ELSE IF getFrameData(session) = 0
            THEN UNCHANGED <<sending, pc, sessions_>>
            ELSE \E status \in SendStatus, c \in DOMAIN connectionToSession_ :
                   /\ sending' =
                        [sending EXCEPT ![w] =
                           [sid |-> sessionId,
                            ws |-> c,
                            status |-> status,
                            len |-> getFrameData(session)]]
                   /\ sessions_' = [sessions_ EXCEPT
                                      ![sessionId].sends = @ + 1]
                   /\ Goto(w, "markFrameSent")
  /\ UNCHANGED <<connectionToSession_, sessionToConnection_, mutex_, evConn,
                 evMsg, ret, open, now, process, cerr, tickStart>>
  /\ UNCHANGED <<stopVars, codecVars>>

(* one iteration of the range-for of broadcastFrames, up to and including  *)
(* ws->send(messageView, uWS::BINARY), whose status the code does not read *)
broadcastFramesStep(w) ==
  /\ process = "running" /\ pc[w] = "broadcastFrames"
  /\ \E sessionId \in iter[w] :
       /\ iter' = [iter EXCEPT ![w] = @ \ {sessionId}]
       /\ LET session == sessions_[sessionId] IN
            IF ~session.hasNewFrame
            THEN UNCHANGED <<sending, pc, sessions_>>
            ELSE IF sessionId \notin DOMAIN sessionToConnection_
            THEN UNCHANGED <<sending, pc, sessions_>>
            ELSE IF getFrameData(session) = 0
            THEN UNCHANGED <<sending, pc, sessions_>>
            ELSE \E status \in SendStatus :
                   /\ sending' =
                        [sending EXCEPT ![w] =
                           [sid |-> sessionId,
                            ws |-> sessionToConnection_[sessionId],
                            status |-> status,
                            len |-> getFrameData(session)]]
                   /\ sessions_' = [sessions_ EXCEPT
                                      ![sessionId].sends = @ + 1]
                   /\ Goto(w, "markFrameSent")
  /\ UNCHANGED <<connectionToSession_, sessionToConnection_, mutex_, evConn,
                 evMsg, ret, open, now, process, cerr, tickStart>>
  /\ UNCHANGED <<stopVars, codecVars>>

(* session->markFrameSent(), the last statement of the iteration *)
broadcastFramesMark(w) ==
  /\ process = "running" /\ pc[w] = "markFrameSent"
  /\ sessions_' = [sessions_ EXCEPT ![sending[w].sid] = markFrameSent(@)]
  /\ sending' = [sending EXCEPT ![w] = NoSend]
  /\ Goto(w, "broadcastFrames")
  /\ UNCHANGED <<connectionToSession_, sessionToConnection_, mutex_, evConn,
                 evMsg, ret, iter, open, now, process, cerr, tickStart>>
  /\ UNCHANGED <<stopVars, codecVars>>

(* faulty variant: broadcastFrames returns without releasing mutex_ *)
broadcastFramesEnd_KeepsLock(w) ==
  /\ process = "running" /\ pc[w] = "broadcastFrames" /\ iter[w] = {}
  /\ Goto(w, "call_updateAll")
  /\ UNCHANGED <<registry, mutex_, evConn, evMsg, ret, iter, open, now,
                 process, cerr, sending, tickStart>>
  /\ UNCHANGED <<stopVars, codecVars>>

broadcastFramesEnd(w) ==
  /\ process = "running" /\ pc[w] = "broadcastFrames" /\ iter[w] = {}
  /\ Unlock
  /\ Goto(w, "call_updateAll")
  /\ UNCHANGED <<registry, evConn, evMsg, ret, iter, open, now, process,
                 cerr, sending, tickStart>>
  /\ UNCHANGED <<stopVars, codecVars>>

----------------------------------------------------------------------------
(* std::chrono::steady_clock *)

AdvanceClock ==
  /\ process = "running"
  /\ now + ClockStep <= MaxTime
  /\ now' = now + ClockStep
  /\ UNCHANGED <<registry, mutex_, pc, evConn, evMsg, ret, iter, open,
                 process, cerr, sending, tickStart>>
  /\ UNCHANGED <<stopVars, codecVars>>

----------------------------------------------------------------------------
Next ==
  \/ \E ws \in Conns : Open(ws)
  \/ createSession
  \/ Opened
  \/ \E ws \in Conns : Close(ws)
  \/ removeSession
  \/ \E ws \in Conns, data \in Messages : Message(ws, data)
  \/ Dropped
  \/ getSessionIdBody
  \/ dispatchLock
  \/ handleInput
  \/ handleControl
  \/ \E w \in Workers : updateAllLock(w)
  \/ \E w \in Workers : updateAllStep(w)
  \/ \E w \in Workers : updateAllEnd(w)
  \/ \E w \in Workers : broadcastFramesLock(w)
  \/ \E w \in Workers : broadcastFramesStep(w)
  \/ \E w \in Workers : broadcastFramesMark(w)
  \/ \E w \in Workers : broadcastFramesEnd(w)
  \/ AdvanceClock

Spec == Init /\ [][Next]_vars

----------------------------------------------------------------------------
(* Shutdown: signalHandler (main.cpp) runs on the thread the signal is     *)
(* delivered to, on top of whatever that thread was doing, and calls       *)
(* Server::stop() and exit(0).  The interrupted thread keeps the lock it   *)
(* held and never returns to the interrupted code.                         *)

StopLabels == {"signalHandler", "join", "reset", "exit"}

(* SIGINT or SIGTERM is delivered to thread t *)
Signal(t) ==
  /\ process = "running"
  /\ \A u \in Threads : pc[u] \notin StopLabels
  /\ pc[t] # "exited"
  /\ Goto(t, "signalHandler")
  /\ UNCHANGED <<registry, mutex_, evConn, evMsg, ret, iter, open, now,
                 process, cerr, sending, tickStart>>
  /\ UNCHANGED <<stopVars, codecVars>>

(* g_server->stop(): running_ = false *)
stopBegin(t) ==
  /\ process = "running" /\ pc[t] = "signalHandler"
  /\ running_' = FALSE
  /\ Goto(t, "join")
  /\ UNCHANGED <<registry, mutex_, evConn, evMsg, ret, iter, open, now,
                 process, cerr, sending, tickStart, joined>>
  /\ UNCHANGED codecVars

(* the first thread of simulationThreads_ that is still joinable *)
NextToJoin ==
  LET left == {i \in 1..NumWorkers : WorkerNames[i] \notin joined} IN
  IF left = {} THEN "none"
  ELSE WorkerNames[CHOOSE i \in left : \A j \in left : i <= j]

(* one thread.join() of the loop of stop(): it returns when the thread's   *)
(* function has returned; a thread that joins itself gets                  *)
(* std::system_error, which nothing catches                                *)
stopJoin(t) ==
  /\ process = "running" /\ pc[t] = "join"
  /\ LET n == NextToJoin IN
       \/ /\ n = "none"
          /\ Goto(t, "reset")
          /\ UNCHANGED <<joined, process>>
       \/ /\ n = t
          /\ process' = "terminated"
          /\ UNCHANGED <<joined, pc>>
       \/ /\ n \notin {"none", t}
          /\ pc[n] = "exited"
          /\ joined' = joined \cup {n}
          /\ UNCHANGED <<pc, process>>
  /\ UNCHANGED <<registry, mutex_, evConn, evMsg, ret, iter, open, now,
                 cerr, sending, tickStart, running_>>
  /\ UNCHANGED codecVars

(* sessionManager_.reset(): ~SessionManager takes mutex_ and clears the    *)
(* three maps                                                              *)
stopReset(t) ==
  /\ process = "running" /\ pc[t] = "reset"
  /\ mutex_ = "free"
  /\ connectionToSession_' = EmptyMap
  /\ sessions_' = EmptyMap
  /\ sessionToConnection_' = EmptyMap
  /\ Goto(t, "exit")
  /\ UNCHANGED <<mutex_, evConn, evMsg, ret, iter, open, now, process, cerr,
                 sending, tickStart>>
  /\ UNCHANGED <<stopVars, codecVars>>

(* exit(0): the destructor of g_server calls stop() once more, which finds *)
(* no joinable thread and no SessionManager, and the process ends          *)
stopExit(t) ==
  /\ process = "running" /\ pc[t] = "exit"
  /\ running_' = FALSE
  /\ process' = "exited"
  /\ UNCHANGED <<registry, mutex_, pc, evConn, evMsg, ret, iter, open, now,
                 cerr, sending, tickStart, joined>>
  /\ UNCHANGED codecVars

(* while (running_) is false: the thread function returns *)
workerExit(w) ==
  /\ process = "running" /\ pc[w] = "call_updateAll"
  /\ ~running_
  /\ Goto(w, "exited")
  /\ UNCHANGED <<registry, mutex_, evConn, evMsg, ret, iter, open, now,
                 process, cerr, sending, tickStart>>
  /\ UNCHANGED <<stopVars, codecVars>>

(* the server without the passing of time, on which nothing of stop()     *)
(* depends, and the shutdown                                               *)
NextStop ==
  \/ \E ws \in Conns : Open(ws)
  \/ createSession
  \/ Opened
  \/ \E ws \in Conns : Close(ws)
  \/ removeSession
  \/ \E ws \in Conns, data \in Messages : Message(ws, data)
  \/ Dropped
  \/ getSessionIdBody
  \/ dispatchLock
  \/ handleInput
  \/ handleControl
  \/ \E w \in Workers : updateAllLock(w)
  \/ \E w \in Workers : updateAllStep(w)
  \/ \E w \in Workers : updateAllEnd(w)
  \/ \E w \in Workers : broadcastFramesLock(w)
  \/ \E w \in Workers : broadcastFramesStep(w)
  \/ \E w \in Workers : broadcastFramesMark(w)
  \/ \E w \in Workers : broadcastFramesEnd(w)
  \/ \E t \in Threads : Signal(t)
  \/ \E t \in Threads : stopBegin(t)
  \/ \E t \in Threads : stopJoin(t)
  \/ \E t \in Threads : stopReset(t)
  \/ \E t \in Threads : stopExit(t)
  \/ \E w \in Workers : workerExit(w)

SpecStop == Init /\ [][NextStop]_vars

----------------------------------------------------------------------------
(* The server with the waiting for mutex_ made visible: a handler of the   *)
(* event loop is entered when its event arrives and then blocks in the     *)
(* lock_guard of the SessionManager operation it calls until the lock is   *)
(* free.  Time does not pass here.                                         *)

(* .open handler entered: createSession(ws) is called *)
openArrives(ws) ==
  /\ process = "running" /\ pc["net"] = "idle" /\ ws \notin open
  /\ Goto("net", "call_createSession")
  /\ evConn' = ws /\ open' = open \cup {ws}
  /\ ret' = << >> /\ evMsg' = NoMsg
  /\ UNCHANGED <<registry, mutex_, iter, now, process, cerr, sending,
                 tickStart>>
  /\ UNCHANGED <<stopVars, codecVars>>

createSessionLock ==
  /\ process = "running" /\ pc["net"] = "call_createSession"
  /\ Lock("net")
  /\ Goto("net", "createSession")
  /\ UNCHANGED <<registry, evConn, evMsg, ret, iter, open, now, process,
                 cerr, sending, tickStart>>
  /\ UNCHANGED <<stopVars, codecVars>>

(* .close handler entered: handleDisconnect calls removeSession(ws) *)
closeArrives(ws) ==
  /\ process = "running" /\ pc["net"] = "idle" /\ ws \in open
  /\ Goto("net", "call_removeSession")
  /\ evConn' = ws /\ open' = open \ {ws}
  /\ UNCHANGED <<registry, mutex_, evMsg, ret, iter, now, process, cerr,
                 sending, tickStart>>
  /\ UNCHANGED <<stopVars, codecVars>>

removeSessionLock ==
  /\ process = "running" /\ pc["net"] = "call_removeSession"
  /\ Lock("net")
  /\ Goto("net", "removeSession")
  /\ UNCHANGED <<registry, evConn, evMsg, ret, iter, open, now, process,
                 cerr, sending, tickStart>>
  /\ UNCHANGED <<stopVars, codecVars>>

(* .message handler entered: handleWebSocket decodes, then calls           *)
(* getSessionId(ws)                                                        *)
messageArrives(ws, data) ==
  /\ process = "running" /\ pc["net"] = "idle" /\ ws \in open
  /\ LET d == handleWebSocketDecode(data) IN
       IF d.route = "drop"
       THEN /\ cerr' = d.line
            /\ Goto("net", "dropped")
            /\ UNCHANGED <<evConn, evMsg>>
       ELSE /\ Goto("net", "call_getSessionId")
            /\ evConn' = ws /\ evMsg' = d.msg
            /\ UNCHANGED cerr
  /\ UNCHANGED <<registry, mutex_, ret, iter, open, now, process, sending,
                 tickStart>>
  /\ UNCHANGED <<stopVars, codecVars>>

getSessionIdLock ==
  /\ process = "running" /\ pc["net"] = "call_getSessionId"
  /\ Lock("net")
  /\ Goto("net", "getSessionId")
  /\ UNCHANGED <<registry, evConn, evMsg, ret, iter, open, now, process,
                 cerr, sending, tickStart>>
  /\ UNCHANGED <<stopVars, codecVars>>

(* a ClientInput, a ClientControl and a truncated ClientInput *)
LiveMessages ==
  {MkMsg(CLIENT_INPUT, 20, 4), MkMsg(CLIENT_CONTROL, 5, 4),
   MkMsg(CLIENT_INPUT, 1, 4)}

(* what the event-loop thread does once it has the lock, or without it *)
netBody ==
  \/ createSession
  \/ Opened
  \/ removeSession
  \/ Dropped
  \/ getSessionIdBody
  \/ handleInput
  \/ handleControl

(* the event-loop thread's lock_guard constructors *)
netLock ==
  \/ createSessionLock
  \/ removeSessionLock
  \/ getSessionIdLock
  \/ dispatchLock

workerBody(w) ==
  \/ updateAllStep(w)
  \/ updateAllEnd(w)
  \/ broadcastFramesStep(w)
  \/ broadcastFramesMark(w)
  \/ broadcastFramesEnd(w)

workerLock(w) ==
  \/ updateAllLock(w)
  \/ broadcastFramesLock(w)

NextLive ==
  \/ \E ws \in Conns : openArrives(ws)
  \/ \E ws \in Conns : closeArrives(ws)
  \/ \E ws \in Conns, data \in LiveMessages : messageArrives(ws, data)
  \/ netLock
  \/ netBody
  \/ \E w \in Workers : workerLock(w)
  \/ \E w \in Workers : workerBody(w)

(* Every thread is scheduled: a step that needs no lock is taken (WF); a   *)
(* thread blocked in a lock_guard gets mutex_ if it is released again and  *)
(* again (SF), which is what the 16 ms sleep of every worker between two   *)
(* cycles gives a blocked thread.  The arrival of events is not fair.      *)
FairLive ==
  /\ WF_vars(netBody)
  /\ SF_vars(netLock)
  /\ \A w \in Workers : WF_vars(workerBody(w)) /\ SF_vars(workerLock(w))

SpecLive == Init /\ [][NextLive]_vars /\ FairLive

----------------------------------------------------------------------------
(* The codec on its own: one ProtocolDecoder, constructed on a buffer that *)
(* is arbitrary bytes, an inbound message, one field the encoder wrote or  *)
(* one message the encoder encoded, and any sequence of calls on it.       *)

RawBytes == {0, 1, 2}
RawBuffers == UNION {[1..n -> RawBytes] : n \in 0..MaxRawLen}

(* 32-bit words (a uint32_t or the bits of a float) and int32_t values;    *)
(* the words stay below 2^31, the largest integer TLC represents          *)
Words == {0, 1, 255, 256, 65536, 16777216, 1065353216, 2147483647}
Ints == {0, 1, -1, 128, -128, -256, 65535, -65536, 2147483647, -2147483647}
Doubles == {[lo |-> 0, hi |-> 0], [lo |-> 0, hi |-> 1072693248],
            [lo |-> 1, hi |-> 2146435072], [lo |-> 16909060, hi |-> 84281096]}
Strings == UNION {[1..n -> {97, 0}] : n \in 0..MaxStrLen}

WordFields ==
  {[kind |-> "uint32", value |-> v] : v \in Words}
    \cup {[kind |-> "float", value |-> v] : v \in Words}
    \cup {[kind |-> "int32", value |-> v] : v \in Ints}
DoubleFields == {[kind |-> "double", value |-> v] : v \in Doubles}
StringFields == {[kind |-> "string", value |-> v] : v \in Strings}

FrameMessages ==
  {[kind |-> "frame",
    value |-> [sessionId |-> id, simulationTime |-> t, textureData |-> d]] :
      id \in Strings, t \in {[lo |-> 0, hi |-> 0], [lo |-> 1, hi |-> 1072693248]},
      d \in {<< >>, <<7>>, <<7, 0, 9>>}}
StateMessages ==
  {[kind |-> "state",
    value |-> [sessionId |-> id, time |-> t, width |-> w, height |-> h,
               depth |-> d]] :
      id \in {<< >>, <<97>>}, t \in {0, 1065353216}, w \in {128, -1},
      h \in {128}, d \in {0, 128}}
ErrorMessages ==
  {[kind |-> "error",
    value |-> [sessionId |-> id, error |-> e]] :
      id \in Strings, e \in {<< >>, <<97, 98>>}}

(* the bytes the encoder produces for a field or a message *)
Encode(m) ==
  IF m.kind = "uint32" THEN writeUInt32(<< >>, m.value)
  ELSE IF m.kind = "float" THEN writeFloat(<< >>, m.value)
  ELSE IF m.kind = "int32" THEN writeInt32(<< >>, m.value)
  ELSE IF m.kind = "double" THEN writeDouble(<< >>, m.value)
  ELSE IF m.kind = "string" THEN writeString(<< >>, m.value)
  ELSE IF m.kind = "frame"
  THEN encodeFrame(m.value.sessionId, m.value.textureData,
                   m.value.simulationTime)
  ELSE IF m.kind = "state"
  THEN encodeState(m.value.sessionId, m.value.time, m.value.width,
                   m.value.height, m.value.depth)
  ELSE encodeError(m.value.sessionId, m.value.error)

InitCodec ==
  /\ ServerInit
  /\ \/ data_ \in RawBuffers \cup Messages /\ written = NoWrite
     \/ \E m \in WordFields : data_ = Encode(m) /\ written = m
     \/ \E m \in DoubleFields : data_ = Encode(m) /\ written = m
     \/ \E m \in StringFields : data_ = Encode(m) /\ written = m
     \/ \E m \in FrameMessages : data_ = Encode(m) /\ written = m
     \/ \E m \in StateMessages : data_ = Encode(m) /\ written = m
     \/ \E m \in ErrorMessages : data_ = Encode(m) /\ written = m
  /\ offset_ = 0
  /\ last = NoCall

(* what a call that returned r (or threw it) leaves in last *)
Returned(op, r) ==
  [op |-> op, ok |-> r.ok, value |-> r.value, what |-> r.what,
   read |-> r.read]

(* The words of the model stay below 2^31: the unsigned word at off fits,  *)
(* and so does the sum readString compares with size_.                     *)
WordFits(off) == ByteAt(data_, off + 3) < 128
LengthFits(off) ==
  /\ WordFits(off)
  /\ LittleEndian32(data_, off) <= 2147483647 - (off + 4)

CallDecodeHeader ==
  LET type == decodeHeader(data_, offset_) IN
  /\ offset_' = type.offset
  /\ last' = Returned("decodeHeader", type)
  /\ UNCHANGED <<data_, written, serverVars>>

CallDecodeClientInput ==
  /\ \A i \in 0..4 : WordFits(offset_ + 4 * i)
  /\ LET msg == decodeClientInput(data_, offset_) IN
       /\ offset_' = msg.offset
       /\ last' = Returned("decodeClientInput", msg)
  /\ UNCHANGED <<data_, written, serverVars>>

CallDecodeClientControl ==
  /\ WordFits(offset_ + 1)
  /\ LET msg == decodeClientControl(data_, offset_) IN
       /\ offset_' = msg.offset
       /\ last' = Returned("decodeClientControl", msg)
  /\ UNCHANGED <<data_, written, serverVars>>

CallReadString ==
  /\ LengthFits(offset_)
  /\ LET result == readString(data_, offset_) IN
       /\ offset_' = result.offset
       /\ last' = Returned("readString", result)
  /\ UNCHANGED <<data_, written, serverVars>>

CallReadFloat ==
  /\ WordFits(offset_)
  /\ LET result == readFloat(data_, offset_) IN
       /\ offset_' = result.offset
       /\ last' = Returned("readFloat", result)
  /\ UNCHANGED <<data_, written, serverVars>>

CallReadDouble ==
  /\ WordFits(offset_) /\ WordFits(offset_ + 4)
  /\ LET result == readDouble(data_, offset_) IN
       /\ offset_' = result.offset
       /\ last' = Returned("readDouble", result)
  /\ UNCHANGED <<data_, written, serverVars>>

CallReadInt32 ==
  LET result == readInt32(data_, offset_) IN
  /\ offset_' = result.offset
  /\ last' = Returned("readInt32", result)
  /\ UNCHANGED <<data_, written, serverVars>>

CallReadUInt32 ==
  /\ WordFits(offset_)
  /\ LET result == readUInt32(data_, offset_) IN
       /\ offset_' = result.offset
       /\ last' = Returned("readUInt32", result)
  /\ UNCHANGED <<data_, written, serverVars>>

NextCodec ==
  \/ CallDecodeHeader
  \/ CallDecodeClientInput
  \/ CallDecodeClientControl
  \/ CallReadString
  \/ CallReadFloat
  \/ CallReadDouble
  \/ CallReadInt32
  \/ CallReadUInt32

SpecCodec == InitCodec /\ [][NextCodec]_vars

----------------------------------------------------------------------------
(* Properties *)

BoundTo(id) == {c \in DOMAIN connectionToSession_ : connectionToSession_[c] = id}

InRegistryOp(t) ==
  pc[t] \in {"createSession", "removeSession", "getSessionId", "handleInput",
             "handleControl", "updateAll", "broadcastFrames", "markFrameSent"}

(* id is in none of the three maps in the next state *)
GoneNext(id) ==
  /\ id \notin DOMAIN sessions_'
  /\ id \notin DOMAIN sessionToConnection_'
  /\ \A c \in DOMAIN connectionToSession_' : connectionToSession_'[c] # id

(* C1: whenever no registry operation is in progress the three maps agree: *)
(* connectionToSession_[c] = id iff id is a key of sessions_ and           *)
(* sessionToConnection_[id] = c; every key of sessions_ or                 *)
(* sessionToConnection_ has exactly one connection pointing to it.         *)
C1_RegistryConsistent ==
  mutex_ = "free" =>
    /\ \A c \in Conns, id \in Ids :
         (c \in DOMAIN connectionToSession_ /\ connectionToSession_[c] = id)
           <=> (/\ id \in DOMAIN sessions_
                /\ id \in DOMAIN sessionToConnection_
                /\ sessionToConnection_[id] = c)
    /\ \A id \in DOMAIN sessions_ \cup DOMAIN sessionToConnection_ :
         Cardinality(BoundTo(id)) = 1

(* C2: a thread that is inside a registry operation (cleanupExpiredSessions *)
(* runs at the end of updateAll) holds mutex_, so at most one thread is    *)
(* inside one at any instant.                                              *)
C2_MutualExclusion ==
  /\ \A t \in Threads : InRegistryOp(t) => mutex_ = t
  /\ Cardinality({t \in Threads : InRegistryOp(t)}) <= 1

C2_Witness ==
  \E w1, w2 \in Workers :
    /\ pc[w1] = "updateAll" /\ iter[w1] # {} /\ mutex_ = w1
    /\ pc[w2] = "call_broadcastFrames"
    /\ pc["net"] = "idle" /\ open # {}

(* C3: the ids createSession returned to distinct connections are pairwise *)
(* distinct, and the three maps have one entry per bound connection.       *)
C3_UniqueIds ==
  /\ \A c1, c2 \in DOMAIN connectionToSession_ :
       c1 # c2 => connectionToSession_[c1] # connectionToSession_[c2]
  /\ mutex_ = "free" =>
       /\ Cardinality(DOMAIN sessions_) =
            Cardinality(DOMAIN connectionToSession_)
       /\ Cardinality(DOMAIN sessionToConnection_) =
            Cardinality(DOMAIN connectionToSession_)

(* C4 as stated: every session whose lastActivity is more than 30 minutes  *)
(* old when updateAll is entered is in none of the three maps when that    *)
(* updateAll returns.                                                      *)
C4_ExpiredRemovedByTick ==
  [][\A w \in Workers :
       (pc[w] = "updateAll" /\ pc'[w] = "call_broadcastFrames") =>
         \A id \in DOMAIN tickStart[w][1].sessions :
           (tickStart[w][1].now - tickStart[w][1].sessions[id].lastActivity
              > 30)
             => GoneNext(id)]_vars

(* C4 amended: every session whose lastActivity is more than 30 minutes    *)
(* old when updateAll is entered and whose needsUpdate flag is clear (this *)
(* tick does not step it) is in none of the three maps when that updateAll *)
(* returns.                                                                *)
C4_IdleExpiredRemovedByTick ==
  [][\A w \in Workers :
       (pc[w] = "updateAll" /\ pc'[w] = "call_broadcastFrames") =>
         \A id \in DOMAIN tickStart[w][1].sessions :
           (/\ tickStart[w][1].now
                 - tickStart[w][1].sessions[id].lastActivity > 30
            /\ ~tickStart[w][1].sessions[id].needsUpdate)
             => GoneNext(id)]_vars

(* a tick has swept the session of a connection that was never closed *)
C4_Witness ==
  /\ pc["net"] = "idle"
  /\ \E c \in open : c \notin DOMAIN connectionToSession_
  /\ \E w \in Workers : pc[w] = "call_broadcastFrames"
  /\ sessions_ = EmptyMap

(* C5: the open handler leaves its connection bound to a session; once the *)
(* close handler has run, neither the connection nor the id it was bound   *)
(* to is in any of the three maps, and closing a connection that has no    *)
(* session leaves the registry unchanged.                                  *)
C5_LifecycleNoLeak ==
  [][/\ (pc["net"] = "createSession"
           /\ (pc'["net"] # "createSession" \/ process' # process))
        => (/\ process' = "running"
            /\ evConn \in DOMAIN connectionToSession_'
            /\ connectionToSession_'[evConn] \in DOMAIN sessions_')
     /\ (pc["net"] = "removeSession" /\ pc'["net"] = "idle")
        => (/\ evConn \notin DOMAIN connectionToSession_'
            /\ \A id \in DOMAIN sessionToConnection_' :
                 sessionToConnection_'[id] # evConn
            /\ evConn \in DOMAIN connectionToSession_
                 => GoneNext(connectionToSession_[evConn])
            /\ evConn \notin DOMAIN connectionToSession_
                 => registry' = registry)]_vars

(* C6: removeSession(c) with c bound to id erases c from                   *)
(* connectionToSession_ and id from sessions_ and sessionToConnection_ and *)
(* leaves every other key of the three maps with its value; with c unknown *)
(* it leaves the registry unchanged (so a second removeSession(c) changes  *)
(* nothing).                                                               *)
C6_RemoveSessionFrame ==
  [][(pc["net"] = "removeSession" /\ pc'["net"] = "idle") =>
       IF evConn \in DOMAIN connectionToSession_
       THEN LET id == connectionToSession_[evConn] IN
            /\ DOMAIN connectionToSession_' =
                 DOMAIN connectionToSession_ \ {evConn}
            /\ DOMAIN sessions_' = DOMAIN sessions_ \ {id}
            /\ DOMAIN sessionToConnection_' =
                 DOMAIN sessionToConnection_ \ {id}
            /\ \A c \in DOMAIN connectionToSession_' :
                 connectionToSession_'[c] = connectionToSession_[c]
            /\ \A i \in DOMAIN sessions_' : sessions_'[i] = sessions_[i]
            /\ \A i \in DOMAIN sessionToConnection_' :
                 sessionToConnection_'[i] = sessionToConnection_[i]
       ELSE registry' = registry]_vars

(* removeSession is running for a bound connection while another session   *)
(* is live                                                                 *)
C6_Witness ==
  /\ pc["net"] = "removeSession"
  /\ evConn \in DOMAIN connectionToSession_
  /\ \E id \in DOMAIN sessions_ : id # connectionToSession_[evConn]
  /\ \E c \in DOMAIN connectionToSession_ : c # evConn

(* C7: when createSession(c) returns id, getSessionId(c) is id, sessions_  *)
(* holds a Session with that id initialized with the 128x128x128 grid and  *)
(* sessionToConnection_[id] = c; getSessionId changes nothing and returns  *)
(* the bound id, or nothing for a connection without a session.            *)
C7_CreateSessionPost ==
  [][/\ (pc["net"] = "createSession" /\ pc'["net"] = "opened")
        => (/\ Len(ret') = 1
            /\ evConn \in DOMAIN connectionToSession_'
            /\ connectionToSession_'[evConn] = ret'[1]
            /\ ret'[1] \in DOMAIN sessions_'
            /\ sessions_'[ret'[1]].id = ret'[1]
            /\ sessions_'[ret'[1]].simulation
            /\ sessions_'[ret'[1]].width = 128
            /\ sessions_'[ret'[1]].height = 128
            /\ sessions_'[ret'[1]].depth = 128
            /\ ret'[1] \in DOMAIN sessionToConnection_'
            /\ sessionToConnection_'[ret'[1]] = evConn)
     /\ (pc["net"] = "getSessionId" /\ pc'["net"] # "getSessionId")
        => (/\ registry' = registry
            /\ evConn \in DOMAIN connectionToSession_
                 => ret' = <<connectionToSession_[evConn]>>
            /\ evConn \notin DOMAIN connectionToSession_
                 => ret' = << >>)]_vars

(* createSession has returned its id to the open handler *)
C7_Witness ==
  /\ pc["net"] = "opened"
  /\ Len(ret) = 1
  /\ evConn \in DOMAIN connectionToSession_
  /\ connectionToSession_[evConn] = ret[1]
  /\ Cardinality(DOMAIN sessions_) = 2

(* C8: handleInput or handleControl for an id that is not in sessions_     *)
(* changes no registry or session state and raises nothing: the handler    *)
(* returns and the process keeps running.                                  *)
C8_RoutingMiss ==
  [][(/\ pc["net"] \in {"handleInput", "handleControl"}
      /\ ret[1] \notin DOMAIN sessions_)
       => (/\ registry' = registry
           /\ process' = "running"
           /\ pc'["net"] \in {pc["net"], "idle"}
           /\ cerr' = cerr)]_vars

(* the session was swept between the getSessionId lookup and the dispatch *)
C8_Witness ==
  /\ pc["net"] = "handleInput"
  /\ ret[1] \notin DOMAIN sessions_
  /\ evConn \in open

(* the byte sequences handleWebSocket cannot route *)
C9_Malformed(data) ==
  \/ Len(data) = 0
  \/ data[1] \notin {1, 2}
  \/ data[1] = 1 /\ Len(data) < 1 + 4 + 4 + 4 + 4 + 4
  \/ data[1] = 2 /\ Len(data) < 1 + 1 + 4

(* C9: every byte sequence that is empty, truncated or of an unknown tag   *)
(* is dropped: handleWebSocket returns normally, the registry and every    *)
(* session are unchanged, and the connection stays open and bound.         *)
C9_MalformedDropped ==
  /\ \A data \in Messages :
       C9_Malformed(data) <=> handleWebSocketDecode(data).route = "drop"
  /\ [][
     /\ (pc["net"] = "idle" /\ pc'["net"] = "dropped")
          => (registry' = registry /\ open' = open /\ mutex_' = mutex_)
     /\ (pc["net"] = "dropped" /\ pc'["net"] # "dropped")
          => (/\ registry' = registry /\ open' = open /\ mutex_' = mutex_
              /\ pc'["net"] = "idle")
     /\ pc["net"] \in {"idle", "dropped"} => process' = "running"]_vars

(* a truncated ClientInput has been caught and logged while a session is   *)
(* bound to an open connection                                             *)
C9_Witness ==
  /\ pc["net"] = "dropped"
  /\ cerr = "Error handling WebSocket message: Invalid message: not enough data for float"
  /\ \E c \in open : c \in DOMAIN connectionToSession_

(* C10: hasNewFrame of a session is cleared only in a step of a worker     *)
(* whose send of that session's frame was not dropped.                     *)
C10_MarkOnlyAfterSuccessfulSend ==
  [][\A id \in DOMAIN sessions_ :
       (/\ id \in DOMAIN sessions_'
        /\ sessions_[id].hasNewFrame
        /\ ~sessions_'[id].hasNewFrame
        /\ sessions_'[id].steps = sessions_[id].steps)
         => \E w \in Workers :
              /\ sending[w].sid = id
              /\ sending[w].status \in {"SUCCESS", "BACKPRESSURE"}]_vars

(* C11: in one execution of updateAll a session is stepped at most once,   *)
(* and the frame of a step is handed to ws->send() at most once before the *)
(* session's next step, whichever workers run the loop.                    *)
C11_PerSessionOrdering ==
  [][/\ \A id \in DOMAIN sessions_' : sessions_'[id].sends <= 1
     /\ \A w \in Workers :
          (pc[w] = "updateAll" /\ pc'[w] = "call_broadcastFrames") =>
            \A id \in DOMAIN tickStart[w][1].sessions \cap DOMAIN sessions_ :
              sessions_[id].steps - tickStart[w][1].sessions[id].steps <= 1
    ]_vars

(* a worker's broadcastFrames reaches a session whose frame another pass   *)
(* has already sent and marked                                             *)
C11_Witness ==
  \E w \in Workers, id \in DOMAIN sessions_ :
    /\ pc[w] = "broadcastFrames" /\ id \in iter[w]
    /\ sessions_[id].steps = 1 /\ sessions_[id].sends = 1
    /\ ~sessions_[id].hasNewFrame

(* C12: a worker that calls ws->send() is not inside the registry critical *)
(* section: mutex_ is not held by the sender when the bytes are handed to  *)
(* the transport.                                                          *)
C12_NoSendUnderLock ==
  [][\A w \in Workers :
       (sending[w] = NoSend /\ sending'[w] # NoSend)
         => (mutex_ # w /\ mutex_' # w)]_vars

(* C13: at most one worker at a time is between the start of its           *)
(* updateAll() and the end of its broadcastFrames(): the cycles of the     *)
(* workers do not run side by side in one scheduling interval.             *)
C13_OneCyclePerInterval ==
  Cardinality({w \in Workers : pc[w] # "call_updateAll"}) <= 1

(* C14: while a worker is inside updateAll() with a session still to step, *)
(* another worker that is ready to flush can enter broadcastFrames() for a *)
(* different session whose frame is pending.                               *)
C14_SessionParallelism ==
  \A w1, w2 \in Workers :
    (/\ w1 # w2
     /\ pc[w1] = "updateAll"
     /\ pc[w2] = "call_broadcastFrames"
     /\ \E a \in iter[w1], b \in DOMAIN sessions_ :
          /\ a # b
          /\ sessions_[a].needsUpdate
          /\ sessions_[b].hasNewFrame
          /\ b \in DOMAIN sessionToConnection_)
      => ENABLED broadcastFramesLock(w2)

(* C15: on the initialized sessions of the registry getFrameData returns   *)
(* an empty payload while hasNewFrame is false (before the first step and  *)
(* from markFrameSent to the next step) and a non-empty one once update()  *)
(* has stepped; the call leaves hasNewFrame as it was.                     *)
C15_NoDuplicateFrame ==
  [][\A id \in DOMAIN sessions_' :
       LET s1 == sessions_'[id] IN
       /\ s1.simulation
       /\ s1.steps = 0 => getFrameData(s1) = 0
       /\ (id \in DOMAIN sessions_ /\ sessions_[id].steps < s1.steps)
            => getFrameData(s1) > 0
       /\ (/\ id \in DOMAIN sessions_
           /\ sessions_[id].hasNewFrame /\ ~s1.hasNewFrame
           /\ sessions_[id].steps = s1.steps)
            => getFrameData(s1) = 0
       /\ (/\ id \in DOMAIN sessions_
           /\ getFrameData(sessions_[id]) = 0
           /\ sessions_[id].steps = s1.steps)
            => getFrameData(s1) = 0
       /\ \A w \in Workers :
            (sending[w] = NoSend /\ sending'[w] # NoSend
               /\ sending'[w].sid = id)
              => (/\ s1.hasNewFrame = sessions_[id].hasNewFrame
                  /\ sending'[w].len = getFrameData(sessions_[id])
                  /\ sending'[w].len > 0)]_vars

(* getFrameData has returned the frame of a step and the flag is still set *)
C15_Witness ==
  \E w \in Workers :
    /\ pc[w] = "markFrameSent"
    /\ sending[w].len = 50331648
    /\ sessions_[sending[w].sid].hasNewFrame
    /\ sessions_[sending[w].sid].steps = 1

(* C16: every frame broadcastFrames hands to ws->send() is the pending     *)
(* frame of a session of sessions_, carries that session's id and goes to  *)
(* the connection sessionToConnection_ binds to that id, which is a        *)
(* connection bound to that id; a session without an entry in              *)
(* sessionToConnection_ has nothing sent and is left as it is.             *)
C16_FrameRouting ==
  [][\A w \in Workers :
       /\ (sending[w] = NoSend /\ sending'[w] # NoSend) =>
            LET m == sending'[w] IN
            /\ pc[w] = "broadcastFrames"
            /\ m.sid \in DOMAIN sessions_
            /\ sessions_[m.sid].id = m.sid
            /\ sessions_[m.sid].hasNewFrame
            /\ m.len = getFrameData(sessions_[m.sid])
            /\ m.sid \in DOMAIN sessionToConnection_
            /\ m.ws = sessionToConnection_[m.sid]
            /\ m.ws \in DOMAIN connectionToSession_
            /\ connectionToSession_[m.ws] = m.sid
       /\ pc[w] = "broadcastFrames" =>
            \A id \in iter[w] \ iter'[w] :
              id \notin DOMAIN sessionToConnection_
                => (sending'[w] = NoSend /\ sessions_'[id] = sessions_[id])
    ]_vars

(* with two sessions live, the frame of one has been handed to its own     *)
(* connection                                                              *)
C16_Witness ==
  \E w \in Workers :
    /\ pc[w] = "markFrameSent"
    /\ Cardinality(DOMAIN sessionToConnection_) = 2
    /\ sending[w].ws = sessionToConnection_[sending[w].sid]
    /\ \E id \in DOMAIN sessions_ :
         id # sending[w].sid /\ sessions_[id].hasNewFrame

(* C17: when the solver cannot be initialized in createSession, no entry   *)
(* is added to the three maps, the connection is closed and the process    *)
(* keeps running.                                                          *)
C17_InitFailureIsolated ==
  [][(/\ pc["net"] = "createSession"
      /\ (pc'["net"] # "createSession" \/ process' # process)
      /\ ret' = << >>)
       => (/\ registry' = registry
           /\ process' = "running"
           /\ evConn \notin open')]_vars

(* remaining bytes of the decoder *)
Remaining == Len(data_) - offset_

C19_DecoderBounds ==
  [][/\ 0 <= offset_' /\ offset_' <= Len(data_')
     /\ \A i \in last'.read : 0 <= i /\ i < Len(data_')
     /\ (last'.op = "decodeHeader" /\ Remaining < 1) => ~last'.ok
     /\ (last'.op \in {"readFloat", "readInt32", "readUInt32", "readString"}
           /\ Remaining < 4) => ~last'.ok
     /\ (last'.op = "readDouble" /\ Remaining < 8) => ~last'.ok
     /\ (last'.op = "readString" /\ Remaining >= 4
           /\ LittleEndian32(data_, offset_) > Remaining - 4) => ~last'.ok
     /\ (last'.op = "decodeClientInput" /\ Remaining < 20) => ~last'.ok
     /\ (last'.op = "decodeClientControl" /\ Remaining < 5) => ~last'.ok
     /\ ~last'.ok => last'.value = 0
    ]_vars

(* decodeClientInput has thrown on its third float, two bytes before the   *)
(* end of the buffer                                                       *)
C19_Witness ==
  /\ last.op = "decodeClientInput" /\ ~last.ok
  /\ Len(data_) = 11 /\ offset_ = 9
  /\ last.read = 1..8

(* C20: the update() that updateAll applies to a session with needsUpdate  *)
(* set makes one solver step, sets hasNewFrame, sets lastActivity to the   *)
(* current time and clears needsUpdate; with needsUpdate clear it changes  *)
(* nothing.  updateAll visits every session that is live when it starts,   *)
(* each once, all of them before cleanupExpiredSessions runs.              *)
C20_UpdateOncePerTick ==
  [][\A w \in Workers :
       /\ (pc[w] = "call_updateAll" /\ pc'[w] = "updateAll")
            => iter'[w] = DOMAIN sessions_
       /\ (pc[w] = "updateAll" /\ pc'[w] = "updateAll" /\ iter'[w] # iter[w])
            => (/\ iter'[w] \subseteq iter[w]
                /\ Cardinality(iter[w] \ iter'[w]) = 1
                /\ DOMAIN sessions_' = DOMAIN sessions_
                /\ \A id \in DOMAIN sessions_ \ (iter[w] \ iter'[w]) :
                     sessions_'[id] = sessions_[id]
                /\ \A id \in iter[w] \ iter'[w] :
                     LET old == sessions_[id]
                         new == sessions_'[id] IN
                     IF old.needsUpdate
                     THEN /\ new.steps = old.steps + 1
                          /\ new.hasNewFrame
                          /\ new.lastActivity = now
                          /\ ~new.needsUpdate
                          /\ new.id = old.id
                          /\ new.simulation = old.simulation
                          /\ <<new.width, new.height, new.depth>> =
                               <<old.width, old.height, old.depth>>
                     ELSE new = old)
       /\ (pc[w] = "updateAll" /\ pc'[w] = "call_broadcastFrames")
            => (/\ iter[w] = {}
                /\ DOMAIN sessions_ = DOMAIN tickStart[w][1].sessions
                /\ \A id \in DOMAIN sessions_ :
                     LET start == tickStart[w][1].sessions[id] IN
                     /\ ~sessions_[id].needsUpdate
                     /\ sessions_[id].steps =
                          start.steps + (IF start.needsUpdate THEN 1 ELSE 0))
    ]_vars

(* updateAll has stepped a new session and still has to visit one that an  *)
(* earlier tick stepped                                                    *)
C20_Witness ==
  \E w \in Workers :
    /\ pc[w] = "updateAll"
    /\ \E a \in DOMAIN sessions_ \ iter[w], b \in iter[w] :
         /\ sessions_[a].steps = 1 /\ sessions_[a].hasNewFrame
         /\ ~sessions_[b].needsUpdate /\ sessions_[b].steps = 1

(* C21: the sweep of updateAll erases a session only when                  *)
(* now - lastActivity > SESSION_TIMEOUT at that moment and keeps every     *)
(* other session as it is, and a Session leaves sessions_ in no other way  *)
(* than this sweep or the removeSession of the connection it is bound to:  *)
(* in particular no createSession replaces a Session of sessions_.         *)
C21_NoPrematureExpiry ==
  [][/\ \A w \in Workers :
          (pc[w] = "updateAll" /\ pc'[w] = "call_broadcastFrames")
            => \A id \in DOMAIN sessions_ :
                 IF now - sessions_[id].lastActivity > SESSION_TIMEOUT
                 THEN id \notin DOMAIN sessions_'
                 ELSE id \in DOMAIN sessions_'
                        /\ sessions_'[id] = sessions_[id]
     /\ \A id \in DOMAIN sessions_ \ DOMAIN sessions_' :
          \/ \E w \in Workers :
               /\ pc[w] = "updateAll" /\ pc'[w] = "call_broadcastFrames"
               /\ now - sessions_[id].lastActivity > SESSION_TIMEOUT
          \/ /\ pc["net"] = "removeSession"
             /\ evConn \in DOMAIN connectionToSession_
             /\ connectionToSession_[evConn] = id
             /\ id \in DOMAIN sessionToConnection_
             /\ sessionToConnection_[id] = evConn
     /\ (pc["net"] = "createSession" /\ pc'["net"] = "opened")
          => ret'[1] \notin DOMAIN sessions_
    ]_vars

(* the part of C21 about the sweep alone: it erases exactly the sessions   *)
(* whose lastActivity is more than SESSION_TIMEOUT old                     *)
C21_SweepOnlyExpired ==
  [][\A w \in Workers :
          (pc[w] = "updateAll" /\ pc'[w] = "call_broadcastFrames")
            => \A id \in DOMAIN sessions_ :
                 IF now - sessions_[id].lastActivity > SESSION_TIMEOUT
                 THEN id \notin DOMAIN sessions_'
                 ELSE id \in DOMAIN sessions_'
                        /\ sessions_'[id] = sessions_[id]]_vars

(* a ClientInput body cut off inside field g (0 = x, 1 = y, 2 = z,         *)
(* 3 = value, 4 = timestamp): the g fields before it and two more bytes    *)
TruncatedAt(g) == [i \in 1..(4 * g + 2) |-> 0]

(* C23: when decodeClientInput runs out of data, the fields before the     *)
(* missing one have been read and none after it, and the error names the   *)
(* missing field: its text is not the text of a failure at another field.  *)
C23_ErrorNamesField ==
  [][(last'.op = "decodeClientInput" /\ ~last'.ok) =>
       LET field == Remaining \div 4 IN
       /\ field \in 0..4
       /\ offset_' = offset_ + 4 * field
       /\ last'.read = offset_..(offset_' - 1)
       /\ \A g \in (0..4) \ {field} :
            decodeClientInput(TruncatedAt(g), 0).what # last'.what]_vars

(* the part of C23 that does not depend on the text of the error *)
C23_FieldsBeforeOnly ==
  [][(last'.op = "decodeClientInput" /\ ~last'.ok) =>
       LET field == Remaining \div 4 IN
       /\ field \in 0..4
       /\ offset_' = offset_ + 4 * field
       /\ last'.read = offset_..(offset_' - 1)]_vars

(* the four bytes of a 32-bit word, least significant first *)
Word4(v) ==
  <<v % 256, (v \div 256) % 256, (v \div 65536) % 256, (v \div 16777216) % 256>>

C26_SteppedAtMostOnce ==
  [][\A id \in DOMAIN sessions_' :
       LET s1 == sessions_'[id] IN
       /\ s1.steps <= 1
       /\ s1.sends <= 1
       /\ s1.needsUpdate <=> (s1.steps = 0)
       /\ s1.hasNewFrame => (s1.steps = 1 /\ s1.sends <= 1)
       /\ (/\ id \in DOMAIN sessions_
           /\ ~(pc["net"] = "createSession" /\ ret' = <<id>>))
            => LET s0 == sessions_[id] IN
               /\ ~s0.needsUpdate => ~s1.needsUpdate
               /\ s0.steps <= s1.steps
               /\ s0.steps = 1 =>
                    (/\ s0.sends <= s1.sends
                     /\ ~s0.hasNewFrame => ~s1.hasNewFrame)
               /\ \A w \in Workers :
                    (pc[w] = "updateAll" /\ id \in iter[w] \ iter'[w]
                       /\ s0.steps = 1) => s1 = s0]_vars

(* a later tick visits a session that was stepped and whose frame was sent *)
(* at an earlier time, and has left it as it was                           *)
C26_Witness ==
  \E w \in Workers : \E id \in DOMAIN sessions_ \ iter[w] :
    /\ pc[w] = "updateAll"
    /\ id \in DOMAIN tickStart[w][1].sessions
    /\ tickStart[w][1].sessions[id].steps = 1
    /\ sessions_[id].steps = 1 /\ sessions_[id].sends = 1
    /\ ~sessions_[id].hasNewFrame
    /\ sessions_[id].lastActivity < now

CloseNotFinished(c) ==
  c \in open \/ (pc["net"] = "removeSession" /\ evConn = c)

(* C28: every connection handle stored in sessionToConnection_, and every  *)
(* handle broadcastFrames calls send() on, is of a connection whose close  *)
(* handler has not finished.                                               *)
C28_NoDanglingConnection ==
  /\ \A id \in DOMAIN sessionToConnection_ :
       CloseNotFinished(sessionToConnection_[id])
  /\ \A w \in Workers :
       sending[w] # NoSend => CloseNotFinished(sending[w].ws)

(* the close handler of a connection runs removeSession while the          *)
(* connection's session has a frame pending and a worker is about to call  *)
(* broadcastFrames                                                         *)
C28_Witness ==
  /\ pc["net"] = "removeSession"
  /\ evConn \in DOMAIN connectionToSession_
  /\ connectionToSession_[evConn] \in DOMAIN sessions_
  /\ sessions_[connectionToSession_[evConn]].hasNewFrame
  /\ sessionToConnection_[connectionToSession_[evConn]] = evConn
  /\ \E w \in Workers : pc[w] = "call_broadcastFrames"

(* connection c is open and has no session, and it is not the connection   *)
(* createSession is running for: its session was removed by the sweep      *)
Swept(c) ==
  /\ c \in open
  /\ c \notin DOMAIN connectionToSession_
  /\ ~(pc["net"] = "createSession" /\ evConn = c)

(* C29: a connection whose session the sweep removed stays without a       *)
(* session while it is open: getSessionId returns nothing for it, the      *)
(* handler of a message it sends returns after getSessionId and no step of *)
(* it changes the registry, and no send() goes to it.                      *)
C29_SweptStaysUnbound ==
  [][\A c \in Conns :
       (Swept(c) /\ c \in open') =>
         /\ Swept(c)'
         /\ getSessionId(c) = << >>
         /\ \A id \in DOMAIN sessionToConnection_' :
              sessionToConnection_'[id] # c
         /\ \A w \in Workers : sending'[w].ws # c
         /\ (pc'["net"] # pc["net"] /\ (evConn = c \/ evConn' = c))
              => registry' = registry
         /\ (pc'["net"] # pc["net"] /\ evConn = c
               /\ pc["net"] = "getSessionId")
              => (pc'["net"] = "idle" /\ ret' = << >>)]_vars

(* getSessionId runs for a ClientInput of a connection whose session was   *)
(* swept, while another connection has a session                           *)
C29_Witness ==
  \E c \in Conns :
    /\ Swept(c)
    /\ pc["net"] = "getSessionId" /\ evConn = c /\ evMsg.kind = "input"
    /\ Cardinality(DOMAIN sessions_) = 1

(* the thread that runs signalHandler, as a set *)
Stopping == {t \in Threads : pc[t] \in StopLabels}

(* C25: once a termination signal has arrived, stop() is never stuck (the  *)
(* thread it is joining does not wait for a lock the stopping thread       *)
(* holds, and ~SessionManager does not wait for a lock of its own thread), *)
(* no exception ends the process, the registry is released only after      *)
(* every worker was joined, and the process ends by exit(0).               *)
C25_CleanShutdown ==
  \A t \in Stopping :
    /\ process # "terminated" \/ pc["net"] = "createSession"
    /\ ~(/\ pc[t] = "join" /\ mutex_ = t
         /\ NextToJoin \in Workers \ {t}
         /\ pc[NextToJoin] = "call_broadcastFrames")
    /\ ~(pc[t] = "reset" /\ mutex_ = t)
    /\ pc[t] \in {"reset", "exit"} => joined = Workers
    /\ process = "exited" => (pc[t] = "exit" /\ joined = Workers)

(* the three ways of C25 in which shutdown goes wrong, one by one: a       *)
(* worker that joins itself, a join of a worker that waits for the lock of *)
(* the stopping thread, ~SessionManager locking the stopping thread's lock *)
C25_NoSelfJoin ==
  \A t \in Stopping : process # "terminated" \/ pc["net"] = "createSession"

C25_NoJoinOfBlockedWorker ==
  \A t \in Stopping :
    ~(/\ pc[t] = "join" /\ mutex_ = t
      /\ NextToJoin \in Workers \ {t}
      /\ pc[NextToJoin] = "call_broadcastFrames")

C25_NoRelock ==
  \A t \in Stopping : ~(pc[t] = "reset" /\ mutex_ = t)

(* the event-loop thread is blocked in a lock_guard *)
NetWaits ==
  {"call_createSession", "call_removeSession", "call_getSessionId",
   "call_dispatch"}

(* C22: a handler of the event loop that needs the registry gets the lock  *)
(* and runs to its end, however the workers loop over updateAll and        *)
(* broadcastFrames: a wait for mutex_ ends, and the handler returns (or    *)
(* createSession has ended the process).                                   *)
C22_TransportLiveness ==
  /\ (pc["net"] \in NetWaits) ~> (mutex_ = "net")
  /\ (pc["net"] # "idle") ~> (pc["net"] = "idle" \/ process = "terminated")

(* the .close handler waits for the lock while a worker holds it inside    *)
(* updateAll and the other worker waits as well                            *)
C22_Witness ==
  /\ pc["net"] = "call_removeSession"
  /\ \E w1 \in Workers, w2 \in Workers :
       /\ mutex_ = w1 /\ pc[w1] = "updateAll" /\ iter[w1] # {}
       /\ pc[w2] = "call_broadcastFrames"

(* connection c is bound to a session that has not been stepped yet *)
Bound(c) ==
  /\ c \in DOMAIN connectionToSession_
  /\ connectionToSession_[c] \in DOMAIN sessions_
  /\ sessions_[connectionToSession_[c]].needsUpdate

(* a worker is inside ws->send of a ServerFrame to connection c *)
FrameSentTo(c) == \E w \in Workers : sending[w].ws = c

(* C30: once a session has been created for a connection, the session is  *)
(* stepped and a ServerFrame is eventually sent to that connection, unless *)
(* the connection is closed (or the process has ended) first.              *)
C30_FrameEventuallySent ==
  \A c \in Conns :
    Bound(c) ~> (FrameSentTo(c) \/ c \notin open \/ process = "terminated")

(* the second half of C30: a pending frame of a session that has a         *)
(* connection does not stay pending; the send is made and the flag cleared *)
C30_PendingCleared ==
  \A id \in Ids :
    (/\ id \in DOMAIN sessions_ /\ id \in DOMAIN sessionToConnection_
     /\ sessions_[id].hasNewFrame)
      ~> (\/ id \notin DOMAIN sessions_
          \/ ~sessions_[id].hasNewFrame
          \/ process = "terminated")

====
